---- MODULE Spec2Model ----
(***************************************************************************)
(* TUndelayedDestruction<TDD> (thrift/lib/cpp/async/TUndelayedDestruction.h)*)
(* An object of the adapter type on the single event-loop thread: its      *)
(* construction through the forwarding constructor, the destructor guards  *)
(* taken and released on it, and its destruction.  The thread of control   *)
(* is a call stack of frames; the base type TDD (TDelayedDestruction) is   *)
(* not part of the header and is modelled from its documented contract.    *)
(***************************************************************************)
EXTENDS Integers, Sequences, FiniteSets, TLC

VARIABLES
    life,            \* "none", "alive", "destructing", "destroyed", "ctor_failed"
    ctorArgs,        \* the argument list the caller constructed the object with
    baseState,       \* what the TDD constructor made of the arguments it received
    ctorExc,         \* the exception that left the constructor, or "none"
    guardCount,      \* TDD::guardCount_, read through getDestructorGuardCount()
    destroyPending,  \* TDD::destroyPending_
    dynType,         \* dynamic type of the object, for virtual dispatch
    stack,           \* call stack of the loop thread, innermost frame last
    proc,            \* "running", "aborted" (abort()), "assert_failed" (assert())
    NDEBUG,          \* TRUE in a build that compiles assert() out
    log,             \* every call and guard operation so far, with the count then
    ops,             \* number of operations callers have started on the object
    tddCopyable,     \* TRUE if TDD has a copy constructor its subclasses can call
    copied           \* TRUE once an adapter object exists that is a copy of this one

vars == <<life, ctorArgs, baseState, ctorExc, guardCount, destroyPending,
          dynType, stack, proc, NDEBUG, log, ops, tddCopyable, copied>>

\* ---- bounds -------------------------------------------------------------
MaxArity == 2        \* longest forwarded argument list
MaxGuard == 2        \* most destructor guards outstanding at once
MaxOps   == 4        \* most operations callers start on one object

\* ---- constructor arguments ---------------------------------------------
ArgVals == {"x", "bad"}          \* "bad" makes the TDD constructor throw
ValueCategories == {"lvalue", "rvalue"}
Arg == [v : ArgVals, cat : ValueCategories]

RECURSIVE SeqsUpTo(_, _)
SeqsUpTo(S, n) ==
    IF n = 0 THEN {<<>>}
    ELSE LET shorter == SeqsUpTo(S, n - 1)
         IN  shorter \cup {Append(s, x) : s \in {t \in shorter : Len(t) = n - 1}, x \in S}

ArgLists == SeqsUpTo(Arg, MaxArity)

\* Template argument deduction for a forwarding reference Args&&: an lvalue
\* of type T deduces Args = T&, an rvalue deduces Args = T.
DeduceArgs(a) == IF a.cat = "lvalue" THEN "T&" ELSE "T"

\* Reference collapsing of Args&&.
CollapseRef(A) == IF A = "T&" THEN "T&" ELSE "T&&"

\* Inside the constructor a named parameter is an lvalue whatever it was
\* bound to.
NamedParameter(a) == [v |-> a.v, cat |-> "lvalue"]

\* std::forward<Args>(args) drops the value category of its operand.
forward_NoCast(A, p) == p

\* std::forward<Args>(args) == static_cast<Args&&>(args)
forward(A, p) ==
    [v |-> p.v, cat |-> IF CollapseRef(A) = "T&" THEN "lvalue" ELSE "rvalue"]

\* The TDD constructor: it copies what it receives as an lvalue, moves what
\* it receives as an rvalue, and throws on an argument it rejects.
TDD_ctor(args) ==
    IF \E i \in 1..Len(args) : args[i].v = "bad"
    THEN [exc |-> "TDD_ctor_error", state |-> <<>>, guardCount |-> 0, destroyPending |-> FALSE]
    ELSE [exc |-> "none",
          state |-> [i \in 1..Len(args) |->
                        [v |-> args[i].v,
                         how |-> IF args[i].cat = "rvalue" THEN "moved" ELSE "copied"]],
          guardCount |-> 0, destroyPending |-> FALSE]

\* template<typename ...Args> explicit TUndelayedDestruction(Args&& ...args)
\*   : TDD(std::forward<Args>(args)...) {}
TUndelayedDestruction_ctor(args) ==
    TDD_ctor([i \in 1..Len(args) |->
                 forward(DeduceArgs(args[i]), NamedParameter(args[i]))])

\* ---- helpers on the call stack and the log ------------------------------
Frame(fn, at, delayed) == [fn |-> fn, at |-> at, delayed |-> delayed]
Top == stack[Len(stack)]
Idle == proc = "running" /\ stack = <<>>
At(fn, at) == proc = "running" /\ stack # <<>> /\ Top.fn = fn /\ Top.at = at
Pop == SubSeq(stack, 1, Len(stack) - 1)
Event(ev) == [ev |-> ev, g |-> guardCount]
Logged(ev) == log' = Append(log, Event(ev))

Init ==
    /\ life = "none"
    /\ ctorArgs = <<>>
    /\ baseState = <<>>
    /\ ctorExc = "none"
    /\ guardCount = 0
    /\ destroyPending = FALSE
    /\ dynType = "none"
    /\ stack = <<>>
    /\ proc = "running"
    /\ NDEBUG \in BOOLEAN
    /\ log = <<>>
    /\ ops = 0
    /\ tddCopyable \in BOOLEAN
    /\ copied = FALSE

\* A caller constructs the adapter with some argument list.
Construct ==
    /\ life = "none" /\ Idle
    /\ \E args \in ArgLists :
         LET r == TUndelayedDestruction_ctor(args) IN
         /\ ctorArgs' = args
         /\ ctorExc' = r.exc
         /\ baseState' = r.state
         /\ guardCount' = r.guardCount
         /\ destroyPending' = r.destroyPending
         /\ life' = IF r.exc = "none" THEN "alive" ELSE "ctor_failed"
         /\ dynType' = IF r.exc = "none" THEN "TUndelayedDestruction" ELSE "none"
    /\ UNCHANGED <<stack, proc, NDEBUG, tddCopyable, copied, log, ops>>

\* ---- access control and virtual dispatch --------------------------------
StaticTypes == {"TDD", "TUndelayedDestruction"}

\* Access of TDD's members: destroy() is the public entry point, the
\* destructor and destroyNow are protected.
TDD_MemberAccess(member) ==
    CASE member = "~"          -> "protected"
      [] member = "destroy"    -> "public"
      [] member = "destroyNow" -> "protected"

\* Access of the adapter's members: public destructor, protected destroy()
\* and destroyNow().
TUndelayedDestruction_MemberAccess(member) ==
    CASE member = "~"          -> "public"
      [] member = "destroy"    -> "protected"
      [] member = "destroyNow" -> "protected"

\* Access of a member named through an expression of the given static type.
\* class TUndelayedDestruction : public TDD makes every adapter object
\* nameable as a TDD as well, and access is decided by the static type.
MemberAccess(staticType, member) ==
    IF staticType = "TUndelayedDestruction"
    THEN TUndelayedDestruction_MemberAccess(member)
    ELSE TDD_MemberAccess(member)

\* The function a virtual call of member m runs: the final overrider in the
\* object's dynamic type.
FinalOverrider(m) ==
    IF dynType = "TUndelayedDestruction"
    THEN CASE m = "destroy" -> "destroy" [] m = "destroyNow" -> "destroyNow"
    ELSE CASE m = "destroy" -> "TDD::destroy" [] m = "destroyNow" -> "TDD::destroyNow"

\* uint32_t getDestructorGuardCount() const
getDestructorGuardCount == guardCount

\* Call fn from the innermost frame, which resumes at `resume`.
Call(fn, delayed, resume) ==
    stack' = Append([stack EXCEPT ![Len(stack)].at = resume], Frame(fn, "entry", delayed))

\* ---- destructor guards (TDD::DestructorGuard) ---------------------------
\* DestructorGuard(dd): ++dd->guardCount_
AcquireGuard ==
    /\ Idle /\ life = "alive"
    /\ ops < MaxOps /\ guardCount < MaxGuard
    /\ guardCount' = guardCount + 1
    /\ ops' = ops + 1
    /\ log' = Append(log, [ev |-> "acquire", g |-> guardCount + 1])
    /\ UNCHANGED <<life, ctorArgs, baseState, ctorExc, destroyPending, dynType,
                   stack, proc, NDEBUG, tddCopyable, copied>>

\* A release that does not belong to an outstanding guard.
ReleaseGuard_Unpaired ==
    /\ Idle /\ life = "alive"
    /\ guardCount > -2
    /\ guardCount' = guardCount - 1
    /\ log' = Append(log, [ev |-> "release", g |-> guardCount - 1])
    /\ UNCHANGED <<life, ctorArgs, baseState, ctorExc, destroyPending, dynType,
                   stack, proc, NDEBUG, tddCopyable, copied, ops>>

\* ~DestructorGuard(): --dd->guardCount_; the last guard to go delivers a
\* pending destruction as destroyNow(true).
ReleaseGuard ==
    /\ Idle /\ life = "alive"
    /\ guardCount > 0
    /\ guardCount' = guardCount - 1
    /\ log' = Append(log, [ev |-> "release", g |-> guardCount - 1])
    /\ stack' = IF guardCount' = 0 /\ destroyPending
                THEN <<Frame(FinalOverrider("destroyNow"), "entry", TRUE)>>
                ELSE stack
    /\ UNCHANGED <<life, ctorArgs, baseState, ctorExc, destroyPending, dynType,
                   proc, NDEBUG, tddCopyable, copied, ops>>

\* ---- callers -------------------------------------------------------------
\* A caller names the object through an expression of some static type and
\* calls destroy() on it; the call compiles only where destroy is public.
CallDestroy ==
    /\ Idle /\ life = "alive"
    /\ ops < MaxOps
    /\ \E staticType \in StaticTypes :
         /\ MemberAccess(staticType, "destroy") = "public"
         /\ stack' = <<Frame(FinalOverrider("destroy"), "entry", FALSE)>>
         /\ log' = Append(log, [ev |-> "call destroy", g |-> guardCount])
    /\ ops' = ops + 1
    /\ UNCHANGED <<life, ctorArgs, baseState, ctorExc, guardCount, destroyPending,
                   dynType, proc, NDEBUG, tddCopyable, copied>>

\* A caller destroys the object: scope exit, owner's destructor, delete.
CallDestructor ==
    /\ Idle /\ life = "alive"
    /\ MemberAccess("TUndelayedDestruction", "~") = "public"
    /\ life' = "destructing"
    /\ stack' = <<Frame("~TUndelayedDestruction", "entry", FALSE)>>
    /\ Logged("~TUndelayedDestruction")
    /\ UNCHANGED <<ctorArgs, baseState, ctorExc, guardCount, destroyPending,
                   dynType, proc, NDEBUG, tddCopyable, copied, ops>>

\* ---- ~TUndelayedDestruction() -------------------------------------------
\* The guard check without the abort.
dtor_check_NoAbort ==
    /\ At("~TUndelayedDestruction", "entry")
    /\ stack' = [stack EXCEPT ![Len(stack)].at = "destroy"]
    /\ UNCHANGED <<life, ctorArgs, baseState, ctorExc, guardCount, destroyPending,
                   dynType, proc, NDEBUG, tddCopyable, copied, log, ops>>

\* The guard check that tolerates one outstanding guard.
dtor_check_OffByOne ==
    /\ At("~TUndelayedDestruction", "entry")
    /\ IF getDestructorGuardCount > 1
       THEN /\ proc' = "aborted"
            /\ Logged("abort")
            /\ UNCHANGED stack
       ELSE /\ stack' = [stack EXCEPT ![Len(stack)].at = "destroy"]
            /\ UNCHANGED <<proc, log>>
    /\ UNCHANGED <<life, ctorArgs, baseState, ctorExc, guardCount, destroyPending,
                   dynType, NDEBUG, tddCopyable, copied, ops>>

\* The guard check that reports the violation by returning early.
dtor_check_Returns ==
    /\ At("~TUndelayedDestruction", "entry")
    /\ IF getDestructorGuardCount # 0
       THEN /\ stack' = [stack EXCEPT ![Len(stack)].at = "end"]
            /\ Logged("abort")
            /\ UNCHANGED proc
       ELSE /\ stack' = [stack EXCEPT ![Len(stack)].at = "destroy"]
            /\ UNCHANGED <<proc, log>>
    /\ UNCHANGED <<life, ctorArgs, baseState, ctorExc, guardCount, destroyPending,
                   dynType, NDEBUG, tddCopyable, copied, ops>>

\* The guard check that drops the outstanding guards instead of aborting.
dtor_check_ClearsGuards ==
    /\ At("~TUndelayedDestruction", "entry")
    /\ guardCount' = 0
    /\ stack' = [stack EXCEPT ![Len(stack)].at = "destroy"]
    /\ UNCHANGED <<life, ctorArgs, baseState, ctorExc, destroyPending,
                   dynType, proc, NDEBUG, tddCopyable, copied, log, ops>>

\* The guard check with the comparison inverted.
dtor_check_Inverted ==
    /\ At("~TUndelayedDestruction", "entry")
    /\ IF getDestructorGuardCount = 0
       THEN /\ proc' = "aborted"
            /\ Logged("abort")
            /\ UNCHANGED stack
       ELSE /\ stack' = [stack EXCEPT ![Len(stack)].at = "destroy"]
            /\ UNCHANGED <<proc, log>>
    /\ UNCHANGED <<life, ctorArgs, baseState, ctorExc, guardCount, destroyPending,
                   dynType, NDEBUG, tddCopyable, copied, ops>>

\* The guard check that waits for the guards to go instead of aborting.
dtor_check_Waits ==
    /\ At("~TUndelayedDestruction", "entry")
    /\ getDestructorGuardCount = 0
    /\ stack' = [stack EXCEPT ![Len(stack)].at = "destroy"]
    /\ UNCHANGED <<life, ctorArgs, baseState, ctorExc, guardCount, destroyPending,
                   dynType, proc, NDEBUG, tddCopyable, copied, log, ops>>

\* if (this->getDestructorGuardCount() != 0) { abort(); }
dtor_check ==
    /\ At("~TUndelayedDestruction", "entry")
    /\ IF getDestructorGuardCount # 0
       THEN /\ proc' = "aborted"
            /\ Logged("abort")
            /\ UNCHANGED stack
       ELSE /\ stack' = [stack EXCEPT ![Len(stack)].at = "destroy"]
            /\ UNCHANGED <<proc, log>>
    /\ UNCHANGED <<life, ctorArgs, baseState, ctorExc, guardCount, destroyPending,
                   dynType, NDEBUG, tddCopyable, copied, ops>>

\* this->destroy();  a virtual call, resolved in the type under destruction
dtor_destroy ==
    /\ At("~TUndelayedDestruction", "destroy")
    /\ Call(FinalOverrider("destroy"), FALSE, "end")
    /\ UNCHANGED <<life, ctorArgs, baseState, ctorExc, guardCount, destroyPending,
                   dynType, proc, NDEBUG, tddCopyable, copied, log, ops>>

\* The closing brace: the body is done and the base sub-object's destructor
\* runs on an object whose dynamic type is now TDD.
dtor_end ==
    /\ At("~TUndelayedDestruction", "end")
    /\ stack' = [stack EXCEPT ![Len(stack)] = Frame("~TDD", "entry", FALSE)]
    /\ dynType' = "TDD"
    /\ Logged("~TDD")
    /\ UNCHANGED <<life, ctorArgs, baseState, ctorExc, guardCount, destroyPending,
                   proc, NDEBUG, tddCopyable, copied, ops>>

\* virtual ~TDD() {}
TDD_dtor ==
    /\ At("~TDD", "entry")
    /\ stack' = Pop
    /\ life' = "destroyed"
    /\ dynType' = "none"
    /\ UNCHANGED <<ctorArgs, baseState, ctorExc, guardCount, destroyPending,
                   proc, NDEBUG, tddCopyable, copied, log, ops>>

\* ---- TUndelayedDestruction::destroy() -----------------------------------
\* A destroy() override that forgets the base.
destroy_SkipsBase ==
    /\ At("destroy", "entry")
    /\ stack' = Pop
    /\ Logged("destroy")
    /\ UNCHANGED <<life, ctorArgs, baseState, ctorExc, guardCount, destroyPending,
                   dynType, proc, NDEBUG, tddCopyable, copied, ops>>

\* A destroy() override that tears down at once instead of asking the base.
destroy_CallsDestroyNow ==
    /\ At("destroy", "entry")
    /\ Call(FinalOverrider("destroyNow"), FALSE, "return")
    /\ Logged("destroy")
    /\ UNCHANGED <<life, ctorArgs, baseState, ctorExc, guardCount, destroyPending,
                   dynType, proc, NDEBUG, tddCopyable, copied, ops>>

\* virtual void destroy() { this->TDD::destroy(); }
destroy ==
    /\ At("destroy", "entry")
    /\ Call("TDD::destroy", FALSE, "return")
    /\ Logged("destroy")
    /\ UNCHANGED <<life, ctorArgs, baseState, ctorExc, guardCount, destroyPending,
                   dynType, proc, NDEBUG, tddCopyable, copied, ops>>

destroy_return ==
    /\ At("destroy", "return")
    /\ stack' = Pop
    /\ UNCHANGED <<life, ctorArgs, baseState, ctorExc, guardCount, destroyPending,
                   dynType, proc, NDEBUG, tddCopyable, copied, log, ops>>

\* ---- TDD::destroy() ------------------------------------------------------
\* With guards outstanding the destruction is recorded as pending; without,
\* destroyNow(false) runs at once.
TDD_destroy ==
    /\ At("TDD::destroy", "entry")
    /\ Logged("TDD::destroy")
    /\ IF guardCount # 0
       THEN /\ destroyPending' = TRUE
            /\ stack' = Pop
       ELSE /\ Call(FinalOverrider("destroyNow"), FALSE, "return")
            /\ UNCHANGED destroyPending
    /\ UNCHANGED <<life, ctorArgs, baseState, ctorExc, guardCount, dynType, proc,
                   NDEBUG, tddCopyable, copied, ops>>

TDD_destroy_return ==
    /\ At("TDD::destroy", "return")
    /\ stack' = Pop
    /\ UNCHANGED <<life, ctorArgs, baseState, ctorExc, guardCount, destroyPending,
                   dynType, proc, NDEBUG, tddCopyable, copied, log, ops>>

\* ---- TUndelayedDestruction::destroyNow(bool delayed) --------------------
\* A destroyNow that keeps the behaviour of the base: delete this.
destroyNow_DeletesThis ==
    /\ At("destroyNow", "entry")
    /\ Call("~TUndelayedDestruction", FALSE, "return")
    /\ Logged("~TUndelayedDestruction")
    /\ UNCHANGED <<life, ctorArgs, baseState, ctorExc, guardCount, destroyPending,
                   dynType, proc, NDEBUG, tddCopyable, copied, ops>>

\* A destroyNow without the assertion.
destroyNow_NoAssert ==
    /\ At("destroyNow", "entry")
    /\ stack' = Pop
    /\ Logged(IF Top.delayed THEN "destroyNow(true)" ELSE "destroyNow(false)")
    /\ UNCHANGED <<life, ctorArgs, baseState, ctorExc, guardCount, destroyPending,
                   dynType, proc, NDEBUG, tddCopyable, copied, ops>>

\* assert(!delayed); (void)delayed;
destroyNow ==
    /\ At("destroyNow", "entry")
    /\ Logged(IF Top.delayed THEN "destroyNow(true)" ELSE "destroyNow(false)")
    /\ IF ~NDEBUG /\ Top.delayed
       THEN /\ proc' = "assert_failed"
            /\ UNCHANGED stack
       ELSE /\ stack' = Pop
            /\ UNCHANGED proc
    /\ UNCHANGED <<life, ctorArgs, baseState, ctorExc, guardCount, destroyPending,
                   dynType, NDEBUG, tddCopyable, copied, ops>>

\* ---- copying ---------------------------------------------------------------
\* #if THRIFT_HAVE_CONSTRUCTOR_INHERITANCE: the header never defines the
\* macro, so the variadic constructor of the #else branch is the one compiled.
THRIFT_HAVE_CONSTRUCTOR_INHERITANCE == FALSE

\* The expressions of adapter type a caller can copy from.
SourceKinds == {"lvalue", "const lvalue", "rvalue", "const rvalue"}
IsRvalue(src) == src \in {"rvalue", "const rvalue"}
IsConst(src) == src \in {"const lvalue", "const rvalue"}

\* The constructors that take one argument of adapter type: the deleted copy
\* constructor and, in the variadic branch, the forwarding constructor with
\* Args deduced from the argument.  No move constructor is declared.
CopyCandidates ==
    IF THRIFT_HAVE_CONSTRUCTOR_INHERITANCE THEN {"copy"} ELSE {"copy", "forwarding"}

\* The parameter type each candidate offers for the source: Args&& collapses
\* to the source's own reference type, the copy constructor takes const T&.
ParamType(candidate, src) ==
    IF candidate = "copy"
    THEN [const |-> TRUE, rvalueRef |-> FALSE]
    ELSE [const |-> IsConst(src), rvalueRef |-> IsRvalue(src)]

\* c1 is a better match than c2 for src: an rvalue reference bound to an
\* rvalue beats an lvalue reference, then the less cv-qualified reference
\* wins, then a non-template beats a template.
BetterMatch(c1, c2, src) ==
    LET p1 == ParamType(c1, src)
        p2 == ParamType(c2, src)
    IN  \/ IsRvalue(src) /\ p1.rvalueRef /\ ~p2.rvalueRef
        \/ /\ ~(IsRvalue(src) /\ p2.rvalueRef /\ ~p1.rvalueRef)
           /\ ~p1.const /\ p2.const
        \/ /\ p1 = p2
           /\ c1 = "copy" /\ c2 = "forwarding"

\* The constructor overload resolution selects for TUndelayedDestruction b(src).
SelectedConstructor(src) ==
    CHOOSE c \in CopyCandidates : \A d \in CopyCandidates \ {c} : BetterMatch(c, d, src)

\* Whether "TUndelayedDestruction b(src)" (form "construct") or "b = src"
\* (form "assign") compiles.  A deleted function that is selected makes the
\* program ill-formed; the forwarding constructor compiles if TDD can be
\* constructed from the forwarded adapter object, that is, copied.
WellFormed(form, src) ==
    /\ form = "construct"
    /\ SelectedConstructor(src) = "forwarding"
    /\ tddCopyable

\* A caller copies the object; only copies that compile exist at run time.
CopyObject ==
    /\ Idle /\ life = "alive"
    /\ ~copied
    /\ \E form \in {"construct", "assign"}, src \in SourceKinds : WellFormed(form, src)
    /\ copied' = TRUE
    /\ UNCHANGED <<life, ctorArgs, baseState, ctorExc, guardCount, destroyPending,
                   dynType, stack, proc, NDEBUG, tddCopyable, log, ops>>

Next ==
    \/ Construct
    \/ CopyObject
    \/ AcquireGuard
    \/ ReleaseGuard
    \/ CallDestroy
    \/ CallDestructor
    \/ dtor_check
    \/ dtor_destroy
    \/ dtor_end
    \/ TDD_dtor
    \/ destroy
    \/ destroy_return
    \/ TDD_destroy
    \/ TDD_destroy_return
    \/ destroyNow

Spec == Init /\ [][Next]_vars

\* The steps the loop thread takes inside a call it has entered.  A function
\* that has been entered runs on: none of these steps blocks or yields.
LoopThreadStep ==
    \/ dtor_check
    \/ dtor_destroy
    \/ dtor_end
    \/ TDD_dtor
    \/ destroy
    \/ destroy_return
    \/ TDD_destroy
    \/ TDD_destroy_return
    \/ destroyNow

\* Callers and guard holders may stop at any time; the thread inside a call
\* does not.
FairSpec == Spec /\ WF_vars(LoopThreadStep)

\* ---- reading the log -----------------------------------------------------
Evs == [i \in 1..Len(log) |-> log[i].ev]
DtorIndexes == {i \in 1..Len(log) : log[i].ev = "~TUndelayedDestruction"}
CountAfter(i, ev) == Cardinality({j \in (i + 1)..Len(log) : log[j].ev = ev})
\* The destructor has been entered and its guard check has run.
CheckDone == life \in {"destructing", "destroyed"} /\ ~At("~TUndelayedDestruction", "entry")

\* C1: when the destructor starts with a guard count g > 0 the process
\* aborts, and the abort is the first and only effect of the call: the
\* destructor's frame never leaves the guard check, nothing is called from
\* it, the count is untouched and the abort is the last thing that happens.
C1_AbortIsOnlyEffect ==
    \A i \in DtorIndexes :
        log[i].g > 0 =>
            /\ stack = <<Frame("~TUndelayedDestruction", "entry", FALSE)>>
            /\ life = "destructing"
            /\ guardCount = log[i].g
            /\ \/ i = Len(log) /\ proc = "running"
               \/ i + 1 = Len(log) /\ log[i + 1].ev = "abort" /\ proc = "aborted"

C1_Witness ==
    /\ proc = "aborted"
    /\ Len(log) >= 2
    /\ log[Len(log)].ev = "abort"
    /\ log[Len(log) - 1].ev = "~TUndelayedDestruction"
    /\ log[Len(log) - 1].g > 0

\* C2: when the destructor starts with guard count 0 it does not abort, it
\* is never stuck before it completes, and by the time it has completed
\* TDD::destroy has run exactly once inside it (never twice on the way).
C2_NormalDestroyOnce ==
    \A i \in DtorIndexes :
        log[i].g = 0 =>
            /\ proc = "running"
            /\ CountAfter(i, "abort") = 0
            /\ CountAfter(i, "TDD::destroy") <= 1
            /\ life = "destructing" => ENABLED Next
            /\ life = "destroyed" => stack = <<>> /\ CountAfter(i, "TDD::destroy") = 1

C2_Witness ==
    /\ life = "destroyed"
    /\ proc = "running"
    /\ \E i \in DtorIndexes : log[i].g = 0 /\ CountAfter(i, "TDD::destroy") = 1

\* C3: once the destructor's guard check has run, the process has aborted
\* if and only if the count was non-zero when the destructor started,
\* whatever guards were taken and released before.
C3_OutcomeDependsOnCountOnly ==
    CheckDone => \A i \in DtorIndexes : (proc = "aborted") <=> (log[i].g # 0)

\* A count raised to 2 and lowered to 1 still aborts.
C3_Witness ==
    /\ proc = "aborted"
    /\ \E i \in DtorIndexes :
         /\ i >= 4
         /\ log[i].g = 1
         /\ \E j \in 1..(i - 1) : log[j].ev = "acquire" /\ log[j].g = 2
         /\ log[i - 1].ev = "release" /\ log[i - 1].g = 1

\* C4: only taking and releasing a guard changes the guard count; no step of
\* the constructor, the destructor, destroy() or destroyNow() does, and the
\* constructor leaves the count the TDD constructor set.
C4_AdapterKeepsGuardCount ==
    [][/\ guardCount' # guardCount => (AcquireGuard \/ ReleaseGuard)
       /\ (life = "none" /\ life' = "alive") => guardCount' = TDD_ctor(ctorArgs').guardCount
       /\ (stack # <<>> \/ (life = "alive" /\ life' # life)) => guardCount' = guardCount]_vars

C4_Witness ==
    /\ proc = "aborted"
    /\ \E i \in DtorIndexes : log[i].g = MaxGuard /\ guardCount = MaxGuard

\* C5: destroyNow(delayed) with delayed set fails the assertion in a build
\* with assertions and changes nothing else; in a build without assertions,
\* and with delayed clear in either build, it returns having changed nothing.
C5_DestroyNowContract ==
    [][At("destroyNow", "entry") =>
          IF Top.delayed /\ ~NDEBUG
          THEN /\ proc' = "assert_failed"
               /\ UNCHANGED <<life, ctorArgs, baseState, ctorExc, guardCount,
                              destroyPending, dynType, stack, NDEBUG, ops>>
          ELSE /\ proc' = "running"
               /\ stack' = Pop
               /\ UNCHANGED <<life, ctorArgs, baseState, ctorExc, guardCount,
                              destroyPending, dynType, NDEBUG, ops>>]_vars

C5_Witness ==
    /\ proc = "assert_failed"
    /\ ~NDEBUG
    /\ Top.fn = "destroyNow" /\ Top.delayed
    /\ log[Len(log)].ev = "destroyNow(true)"

\* C6: a guard violation at destruction is fatal and terminal: the guard
\* check with a non-zero count ends the process there and then, without
\* returning to anyone, and no step is ever taken by a process that has ended.
C6_AbortIsTerminal ==
    [][/\ proc = "running"
       /\ (At("~TUndelayedDestruction", "entry") /\ guardCount # 0) =>
             /\ proc' = "aborted"
             /\ UNCHANGED <<life, stack, guardCount, destroyPending>>]_vars

C6_Witness ==
    /\ proc = "aborted"
    /\ life = "destructing"
    /\ stack = <<Frame("~TUndelayedDestruction", "entry", FALSE)>>
    /\ ~ENABLED Next

IsPrefix(s, t) == Len(s) <= Len(t) /\ \A i \in 1..Len(s) : s[i] = t[i]
\* What a destruction that passes the guard check does, in order.
DestructionSteps ==
    <<"~TUndelayedDestruction", "destroy", "TDD::destroy", "destroyNow(false)", "~TDD">>

\* C7: an object destroyed through the adapter is destroyed exactly once: the
\* destructor is entered at most once, the destroy() inside it reaches the
\* adapter's destroyNow(false) and then the base destructor and nothing else,
\* and nothing happens to the object once the destructor has completed.
C7_DestroyedExactlyOnce ==
    /\ [](/\ Cardinality(DtorIndexes) <= 1
          /\ \A i \in DtorIndexes :
                log[i].g = 0 =>
                    /\ IsPrefix(SubSeq(Evs, i, Len(log)), DestructionSteps)
                    /\ life = "destroyed" => SubSeq(Evs, i, Len(log)) = DestructionSteps)
    /\ [][life # "destroyed"]_vars

C7_Witness ==
    /\ life = "destroyed"
    /\ stack = <<>>
    /\ \E i \in DtorIndexes : SubSeq(Evs, i, Len(log)) = DestructionSteps

\* C8: the destructor guard count of a constructed object is never negative,
\* whatever guards are taken and released.
C8_GuardCountNonNegative ==
    life # "none" => guardCount >= 0

C8_Witness ==
    /\ life = "alive"
    /\ guardCount = 0
    /\ Len(log) >= 2
    /\ log[Len(log)].ev = "release"
    /\ \E j \in 1..Len(log) : log[j].ev = "acquire" /\ log[j].g = MaxGuard

\* C9: constructing the adapter with an argument list gives the base state,
\* the guard state and the exception that constructing TDD directly with the
\* same arguments gives.
C9_ConstructionForwards ==
    life # "none" =>
        LET direct == TDD_ctor(ctorArgs) IN
        /\ ctorExc = direct.exc
        /\ baseState = direct.state
        /\ (life = "ctor_failed") <=> (direct.exc # "none")
        /\ log = <<>> => guardCount = direct.guardCount /\ destroyPending = direct.destroyPending

C9_Witness ==
    /\ life = "alive"
    /\ Len(ctorArgs) >= 2
    /\ \E i, j \in 1..Len(ctorArgs) :
         /\ ctorArgs[i].cat = "rvalue" /\ baseState[i].how = "moved"
         /\ ctorArgs[j].cat = "lvalue" /\ baseState[j].how = "copied"

\* C10: the destructor is the only destruction path a caller can reach: no
\* caller ever gets into destroy() on an adapter object from outside.
C10_DestroyNotCallable ==
    ~(stack # <<>> /\ stack[1].fn \in {"destroy", "TDD::destroy"})

\* C11: copy construction and copy assignment of the adapter are rejected
\* when the program is compiled, so no adapter object is ever a copy of
\* another.
C11_NoCopyExists ==
    ~copied

\* C12: from the moment the destructor is entered, destroyNow is only ever
\* entered with delayed false, no pending destruction is recorded and the
\* assertion in destroyNow does not fail.
C12_NoDeferredSignalInDestructor ==
    /\ [](\A i \in DtorIndexes :
            /\ CountAfter(i, "destroyNow(true)") = 0
            /\ proc # "assert_failed"
            /\ \A k \in 1..Len(stack) : stack[k].fn = "destroyNow" => ~stack[k].delayed)
    /\ [][life = "destructing" =>
            /\ destroyPending' = destroyPending
            /\ proc' # "assert_failed"]_vars

C12_Witness ==
    /\ ~NDEBUG
    /\ life = "destructing"
    /\ At("destroyNow", "entry")
    /\ ~Top.delayed
    /\ Len(stack) = 4

\* C13: on the single loop thread no guard is taken or released while the
\* destructor runs: the count TDD::destroy sees when the destructor calls it
\* is the count the destructor checked, 0.
C13_CountStableFromCheckToDestroy ==
    /\ []((life = "destructing" /\ At("TDD::destroy", "entry")) =>
            /\ guardCount = 0
            /\ \A i \in DtorIndexes :
                  /\ log[i].g = guardCount
                  /\ CountAfter(i, "acquire") = 0
                  /\ CountAfter(i, "release") = 0)
    /\ [][life = "destructing" =>
            /\ guardCount' = guardCount
            /\ ~(AcquireGuard \/ ReleaseGuard)]_vars

C13_Witness ==
    /\ life = "destructing"
    /\ At("TDD::destroy", "entry")
    /\ guardCount = 0
    /\ \E j \in 1..Len(log) : log[j].ev = "acquire"

\* C14: the destructor never waits: once entered it reaches "aborted" or
\* "destroyed" by the thread's own steps alone; while it runs the thread
\* always has a step to take and every step taken is the thread's, never a
\* guard release or another caller's operation.
C14_DestructorNeverWaits ==
    /\ (life = "destructing") ~> (proc = "aborted" \/ life = "destroyed")
    /\ []((life = "destructing" /\ proc = "running") => ENABLED LoopThreadStep)
    /\ [][life = "destructing" => LoopThreadStep]_vars

\* Aborted with a guard still outstanding and none released since the
\* destructor was entered.
C14_Witness ==
    /\ proc = "aborted"
    /\ life = "destructing"
    /\ guardCount > 0
    /\ \A i \in DtorIndexes : CountAfter(i, "release") = 0 /\ log[i].g = guardCount

\* The last time the adapter's destroy() was entered.
LastDestroy == CHOOSE i \in 1..Len(log) :
                  /\ log[i].ev = "destroy"
                  /\ \A j \in (i + 1)..Len(log) : log[j].ev # "destroy"

\* C15: the adapter's destroy() is a pass-through: entering it changes no
\* state and calls TDD::destroy on the same object, leaving it changes no
\* state, and what has happened by the time it returns is what TDD::destroy
\* does on that state: with guards outstanding the destruction is recorded
\* as pending and nothing is called, without guards destroyNow(false) runs.
C15_DestroyIsPassThrough ==
    /\ [](At("destroy", "return") =>
            LET i == LastDestroy IN
            IF log[i].g # 0
            THEN /\ SubSeq(Evs, i + 1, Len(log)) = <<"TDD::destroy">>
                 /\ destroyPending
            ELSE SubSeq(Evs, i + 1, Len(log)) = <<"TDD::destroy", "destroyNow(false)">>)
    /\ [][/\ At("destroy", "entry") =>
               /\ stack' = Append([stack EXCEPT ![Len(stack)].at = "return"],
                                  Frame("TDD::destroy", "entry", FALSE))
               /\ UNCHANGED <<life, baseState, guardCount, destroyPending, dynType, proc>>
          /\ At("destroy", "return") =>
               /\ stack' = Pop
               /\ UNCHANGED <<life, baseState, guardCount, destroyPending, dynType, proc, log>>]_vars

C15_Witness ==
    /\ At("destroy", "return")
    /\ guardCount > 0
    /\ destroyPending
    /\ log[Len(log)].ev = "TDD::destroy"
====
